---- MODULE Spec2Model ----
(***************************************************************************)
(* Model of src/index.js: the Revolut CSV -> average purchase price tool.  *)
(* One run of main(): the ticker map is loaded, the documents directory is *)
(* checked and listed, the CSV is parsed line by line, the records are     *)
(* folded, the positions are finalised, checked against the map, printed.  *)
(*                                                                         *)
(* Texts (CSV fields) are sequences of one-character strings.  Numbers are *)
(* records [nan, v]: a JavaScript number that is either NaN or an integer  *)
(* (the input texts carry no decimal point, so every sum is exact).        *)
(* Quotients are records [k, n, d]: "fin" n/d in lowest terms, "inf" with  *)
(* sign n, or "nan".                                                       *)
(***************************************************************************)
EXTENDS Integers, Sequences, FiniteSets, TLC

VARIABLES tickerToIsin, pc, lines, lineIndex, transactions, txIndex,
          tickerStats, totalInjected, totalSold, totalDividends, totalFees,
          positions, stdout, stderr, exitCode

vars == <<tickerToIsin, pc, lines, lineIndex, transactions, txIndex,
          tickerStats, totalInjected, totalSold, totalDividends, totalFees,
          positions, stdout, stderr, exitCode>>

(* ---------------------------------------------------------------- bounds *)

\* Largest number of data lines (after the header) of the CSV file.
MaxLines == 2

(* --------------------------------------------------------------- numbers *)

NaN == [nan |-> TRUE, v |-> 0]

Num(n) == [nan |-> FALSE, v |-> n]

Zero == Num(0)

\* a + b on JavaScript numbers: NaN absorbs.
Add(a, b) == IF a.nan \/ b.nan THEN NaN ELSE Num(a.v + b.v)

\* a - b on JavaScript numbers.
Sub(a, b) == IF a.nan \/ b.nan THEN NaN ELSE Num(a.v - b.v)

\* Math.abs
MathAbs(a) == IF a.nan THEN NaN ELSE Num(IF a.v < 0 THEN -a.v ELSE a.v)

\* a > 0 on JavaScript numbers: every comparison with NaN is false.
GtZero(a) == ~a.nan /\ a.v > 0

AbsInt(n) == IF n < 0 THEN -n ELSE n

RECURSIVE Gcd(_, _)
Gcd(a, b) == IF b = 0 THEN a ELSE Gcd(b, a % b)

QNaN == [k |-> "nan", n |-> 0, d |-> 1]

\* a / b on JavaScript numbers: x/0 is +-Infinity, 0/0 and NaN operands are NaN.
Div(a, b) ==
    IF a.nan \/ b.nan THEN QNaN
    ELSE IF b.v = 0
         THEN IF a.v = 0 THEN QNaN
              ELSE [k |-> "inf", n |-> IF a.v < 0 THEN -1 ELSE 1, d |-> 1]
         ELSE LET g == Gcd(AbsInt(a.v), AbsInt(b.v))
                  s == IF b.v < 0 THEN -1 ELSE 1
              IN [k |-> "fin", n |-> s * (a.v \div g), d |-> s * (b.v \div g)]

\* An integer number as a quotient (for toFixed).
Quot(a) == IF a.nan THEN QNaN ELSE [k |-> "fin", n |-> a.v, d |-> 1]

RECURSIVE Pow10(_)
Pow10(f) == IF f = 0 THEN 1 ELSE 10 * Pow10(f - 1)

\* Number.prototype.toFixed(f): the sign and the integer closest to |x| * 10^f
\* (the larger one on a tie); "NaN" and "Infinity" are printed as such.
toFixed(x, f) ==
    IF x.k = "nan" THEN [k |-> "NaN", neg |-> FALSE, scaled |-> 0]
    ELSE IF x.k = "inf" THEN [k |-> "Infinity", neg |-> x.n < 0, scaled |-> 0]
    ELSE LET whole == AbsInt(x.n) \div x.d
             rest  == AbsInt(x.n) % x.d
             fq    == (rest * Pow10(f)) \div x.d
             fr    == (rest * Pow10(f)) % x.d
         IN [k |-> "fixed", neg |-> x.n < 0,
             scaled |-> whole * Pow10(f) + fq + (IF 2 * fr >= x.d THEN 1 ELSE 0)]

(* ----------------------------------------------------------------- texts *)

IsDigit(c) == c \in {"0", "1", "2", "3", "4", "5", "6", "7", "8", "9"}

DigitVal(c) ==
    CASE c = "0" -> 0 [] c = "1" -> 1 [] c = "2" -> 2 [] c = "3" -> 3
      [] c = "4" -> 4 [] c = "5" -> 5 [] c = "6" -> 6 [] c = "7" -> 7
      [] c = "8" -> 8 [] c = "9" -> 9

\* Does pat occur in s at position i?
MatchAt(s, pat, i) ==
    /\ i + Len(pat) - 1 <= Len(s)
    /\ \A j \in 1..Len(pat) : s[i + j - 1] = pat[j]

\* String.prototype.includes
Includes(s, pat) == \E i \in 1..(Len(s) + 1) : MatchAt(s, pat, i)

\* String.prototype.replace(pat, '') with a string pattern: the first
\* occurrence only.
ReplaceFirst(s, pat) ==
    IF ~Includes(s, pat) THEN s
    ELSE LET i == CHOOSE i \in 1..(Len(s) + 1) :
                     /\ MatchAt(s, pat, i)
                     /\ \A j \in 1..(i - 1) : ~MatchAt(s, pat, j)
         IN SubSeq(s, 1, i - 1) \o SubSeq(s, i + Len(pat), Len(s))

RECURSIVE SkipSpaces(_)
SkipSpaces(s) == IF s # <<>> /\ Head(s) = " " THEN SkipSpaces(Tail(s)) ELSE s

\* The value of the longest prefix of digits of s, most significant first.
RECURSIVE DigitsValue(_, _)
DigitsValue(s, acc) ==
    IF s # <<>> /\ IsDigit(Head(s))
    THEN DigitsValue(Tail(s), 10 * acc + DigitVal(Head(s)))
    ELSE acc

\* parseFloat: leading white space is skipped, then an optional sign and the
\* longest numeric prefix are read; whatever follows is ignored.  No numeric
\* prefix: NaN.
parseFloat(s) ==
    LET t    == SkipSpaces(s)
        neg  == t # <<>> /\ Head(t) = "-"
        sign == t # <<>> /\ Head(t) \in {"-", "+"}
        u    == IF sign THEN Tail(t) ELSE t
    IN IF u # <<>> /\ IsDigit(Head(u))
       THEN Num((IF neg THEN -1 ELSE 1) * DigitsValue(u, 0))
       ELSE NaN

EuroSign == <<"€">>

EurPrefix == <<"E", "U", "R", " ">>

BUY == <<"B", "U", "Y">>

SELL == <<"S", "E", "L", "L">>

DIVIDEND == <<"D", "I", "V", "I", "D", "E", "N", "D">>

ROBO_MANAGEMENT_FEE ==
    <<"R", "O", "B", "O", " ", "M", "A", "N", "A", "G", "E", "M", "E", "N", "T",
      " ", "F", "E", "E">>

CASH_TOP_UP == <<"C", "A", "S", "H", " ", "T", "O", "P", "-", "U", "P">>

BUY_MARKET == <<"B", "U", "Y", " ", "-", " ", "M", "A", "R", "K", "E", "T">>

SELL_MARKET == <<"S", "E", "L", "L", " ", "-", " ", "M", "A", "R", "K", "E", "T">>

CASH_WITHDRAWAL ==
    <<"C", "A", "S", "H", " ", "W", "I", "T", "H", "D", "R", "A", "W", "A", "L">>

(* ---------------------------------------------------------------- inputs *)

\* The header line of the CSV, split on ','.
Header == <<"Ticker", "Type", "Quantity", "Price per share", "Total Amount">>

\* The data lines a CSV file is made of, each already split on ',' (a line
\* with fewer fields than the header leaves the later columns undefined).
DataLines ==
    { <<"TICK_A", BUY_MARKET, <<"2">>, <<"€", "5">>, <<"€", "1", "0">> >>,
      <<"TICK_A", BUY_MARKET, <<"1">>, <<"E", "U", "R", " ", "4">>,
                                       <<"E", "U", "R", " ", "4">> >>,
      <<"TICK_B", BUY_MARKET, <<"1">>, <<"€", "3">>, <<"€", "3">> >>,
      <<"TICK_B", BUY_MARKET, <<"1">>, <<"€", "3">>, <<"3", "x">> >>,
      <<"EUR",    BUY_MARKET, <<"1">>, <<"€", "1">>, <<"€", "1">> >>,
      <<"",       BUY_MARKET, <<"1">>, <<"€", "3">>, <<"€", "3">> >>,
      <<"TICK_A", BUY_MARKET, <<"x">>, <<"€", "5">>, <<"€", "1", "0">> >>,
      <<"TICK_A", BUY_MARKET, <<"2">> >>,
      <<"TICK_A", SELL_MARKET, <<"1">>, <<"€", "6">>, <<"€", "6">> >>,
      <<"TICK_A", SELL_MARKET, <<"3">>, <<"€", "6">>, <<"€", "1", "8">> >>,
      <<"TICK_B", SELL_MARKET, <<"1">>, <<"€", "2">>, <<"€", "2">> >>,
      <<"TICK_B", SELL_MARKET, <<"-", "1">>, <<"€", "2">>, <<"-", "€", "2">> >>,
      <<"EUR",    SELL_MARKET, <<"-", "1">>, <<"€", "1">>, <<"-", "€", "1">> >>,
      <<"TICK_A", DIVIDEND, <<>>, <<>>, <<"€", "1">> >>,
      <<"",       DIVIDEND, <<>>, <<>>, <<"-", "1">> >>,
      <<"",       DIVIDEND, <<>>, <<>>, <<"x">> >>,
      <<"",       ROBO_MANAGEMENT_FEE, <<>>, <<>>, <<"-", "€", "2">> >>,
      <<"",       CASH_TOP_UP, <<>>, <<>>, <<"€", "7">> >>,
      <<"",       CASH_TOP_UP, <<>>, <<>>, <<"-", "3">> >>,
      <<"",       CASH_TOP_UP>>,
      <<"",       CASH_WITHDRAWAL, <<>>, <<>>, <<"-", "€", "5">> >> }

\* The contents of the CSV file: the header and at most MaxLines data lines.
RECURSIVE SeqsUpTo(_, _)
SeqsUpTo(S, n) ==
    IF n = 0 THEN {<<>>}
    ELSE LET shorter == SeqsUpTo(S, n - 1)
         IN shorter \cup {Append(q, x) : q \in {r \in shorter : Len(r) = n - 1}, x \in S}

Contents == {<<Header>> \o body : body \in SeqsUpTo(DataLines, MaxLines)}

\* The tickers the environment can name, TICKER_<ticker>=<ISIN>.
EnvTickers == {"TICK_A", "TICK_B", "EUR"}

Isin(t) == CASE t = "TICK_A" -> "IE00A" [] t = "TICK_B" -> "IE00B" [] t = "EUR" -> "IE00E"

\* process.env: entries <<prefix, rest of the key, value>>.
Environments ==
    {{<<"", "PATH", "/usr/bin">>} \cup {<<"TICKER_", t, Isin(t)>> : t \in S} :
        S \in SUBSET EnvTickers}

\* The listings readdirSync can return: file names as <<stem, extension>>.
Listings ==
    { <<>>,
      << <<"statement", ".pdf">> >>,
      << <<"statement", ".pdf">>, <<"export", ".csv">> >>,
      << <<"export", ".csv">>, <<"older", ".csv">> >> }

(* --------------------------------------------------- loadTickerToIsin *)

\* The map from ticker to ISIN built from the TICKER_* environment variables.
loadTickerToIsin(env) ==
    LET entries == {e \in env : e[1] = "TICKER_"}
    IN [t \in {e[2] : e \in entries} |->
            (CHOOSE e \in entries : e[2] = t)[3]]

\* A test of the map that no map satisfies.
NoTickerMapping_never(map) == Cardinality(DOMAIN map) < 0

\* Object.keys(tickerToIsin).length === 0
NoTickerMapping(map) == Cardinality(DOMAIN map) = 0

\* !tickerToIsin[ticker]
HasIsin(map, ticker) == ticker \in DOMAIN map /\ map[ticker] # ""

(* ------------------------------------------------------------- parseCSV *)

\* The ticker of a record that has none (row.Ticker || null).
Null == "<null>"

IndexOfColumn(header, name) ==
    CHOOSE i \in 1..Len(header) :
        /\ header[i] = name
        /\ \A j \in (i + 1)..Len(header) : header[j] # name

\* row[header[columnIndex]] = values[columnIndex]: the row as a function of
\* the column names whose value is defined.
RowOf(header, values) ==
    LET names == {header[i] : i \in 1..Len(header)}
        defined == {n \in names : IndexOfColumn(header, n) <= Len(values)}
    IN [n \in defined |-> values[IndexOfColumn(header, n)]]

\* row.Ticker is truthy
HasTicker(row) == "Ticker" \in DOMAIN row /\ row["Ticker"] # ""

\* row.Type || ''
TypeOf(row) == IF "Type" \in DOMAIN row THEN row["Type"] ELSE <<>>

\* .replace('€', '').replace('EUR ', '')
StripCurrency(text) == ReplaceFirst(ReplaceFirst(text, EuroSign), EurPrefix)

\* parseFloat((row['Total Amount'] || '0').replace('€', '').replace('EUR ', ''))
TotalAmountOf(row) ==
    LET text == IF "Total Amount" \in DOMAIN row /\ row["Total Amount"] # <<>>
                THEN row["Total Amount"] ELSE <<"0">>
    IN parseFloat(StripCurrency(text))

\* parseFloat(row.Quantity): an undefined field parses to NaN.
QuantityOf(row) ==
    IF "Quantity" \in DOMAIN row THEN parseFloat(row["Quantity"]) ELSE NaN

\* The row is kept as a BUY or SELL transaction.
IsTrade(row) ==
    HasTicker(row) /\ (Includes(TypeOf(row), BUY) \/ Includes(TypeOf(row), SELL))

\* row['Price per share'].replace(...) throws a TypeError on an undefined field.
Throws(row) == IsTrade(row) /\ "Price per share" \notin DOMAIN row

\* The transactions one line pushes, in the order of the four tests.
Pushed(row) ==
    LET type == TypeOf(row)
        totalAmount == TotalAmountOf(row)
        trade == IF IsTrade(row)
                 THEN << [ticker |-> row["Ticker"],
                          type |-> IF Includes(type, BUY) THEN "BUY" ELSE "SELL",
                          quantity |-> QuantityOf(row),
                          pricePerShare |->
                              parseFloat(StripCurrency(row["Price per share"])),
                          totalAmount |-> totalAmount] >>
                 ELSE <<>>
        dividend == IF type = DIVIDEND
                    THEN << [type |-> "DIVIDEND",
                             ticker |-> IF HasTicker(row) THEN row["Ticker"] ELSE Null,
                             totalAmount |-> totalAmount] >>
                    ELSE <<>>
        fee == IF type = ROBO_MANAGEMENT_FEE
               THEN << [type |-> "FEE", totalAmount |-> totalAmount] >>
               ELSE <<>>
        topUp == IF type = CASH_TOP_UP
                 THEN << [ticker |-> "EUR", type |-> "BUY", quantity |-> totalAmount,
                          pricePerShare |-> Num(1), totalAmount |-> totalAmount] >>
                 ELSE <<>>
    IN trade \o dividend \o fee \o topUp

(* ----------------------------------------------- calculateAveragePrices *)

\* const { ticker, type } = transaction
TickerOf(transaction) ==
    IF "ticker" \in DOMAIN transaction THEN transaction.ticker ELSE Null

NewStats == [boughtQuantity |-> Zero, soldQuantity |-> Zero, totalBoughtAmount |-> Zero]

\* tickerStats is [keys, of]: the tickers in insertion order and their stats.
EmptyStats == [keys |-> <<>>, of |-> << >>]

HasStats(stats, ticker) == \E i \in 1..Len(stats.keys) : stats.keys[i] = ticker

\* if (!tickerStats[ticker]) tickerStats[ticker] = {0, 0, 0}
WithStats(stats, ticker) ==
    IF HasStats(stats, ticker) THEN stats
    ELSE [keys |-> Append(stats.keys, ticker),
          of |-> [t \in DOMAIN stats.of \cup {ticker} |->
                     IF t = ticker THEN NewStats ELSE stats.of[t]]]

\* A BUY branch that assigns where the code adds.
ApplyBuy_assign(entry, transaction) ==
    [entry EXCEPT !.boughtQuantity = transaction.quantity,
                  !.totalBoughtAmount = transaction.totalAmount]

\* The BUY branch of the loop body.
ApplyBuy(entry, transaction) ==
    [entry EXCEPT !.boughtQuantity = Add(@, transaction.quantity),
                  !.totalBoughtAmount = Add(@, transaction.totalAmount)]

\* A SELL branch that also takes the proceeds off the amount bought.
ApplySell_reducesCost(entry, transaction) ==
    [entry EXCEPT !.soldQuantity = Add(@, transaction.quantity),
                  !.totalBoughtAmount = Sub(@, transaction.totalAmount)]

\* The SELL branch of the loop body, on the ticker's stats.
ApplySell(entry, transaction) ==
    [entry EXCEPT !.soldQuantity = Add(@, transaction.quantity)]

\* The fee branch.
ApplyFee(total, transaction) == Add(total, MathAbs(transaction.totalAmount))

\* A loop body whose cash top-up branch lacks its continue.
Accumulate_noContinue(acc, transaction) ==
    LET ticker == TickerOf(transaction)
        type == transaction.type
        topUp == ticker = "EUR" /\ type = "BUY"
        injected == IF topUp THEN Add(acc.totalInjected, transaction.totalAmount)
                    ELSE acc.totalInjected
    IN IF type = "DIVIDEND"
       THEN [acc EXCEPT !.totalDividends = Add(@, transaction.totalAmount)]
       ELSE IF type = "FEE"
       THEN [acc EXCEPT !.totalFees = ApplyFee(@, transaction)]
       ELSE LET stats == WithStats(acc.tickerStats, ticker)
            IN IF type = "BUY"
               THEN [acc EXCEPT !.totalInjected = injected,
                                !.tickerStats =
                        [stats EXCEPT !.of[ticker] = ApplyBuy(@, transaction)]]
               ELSE IF type = "SELL"
               THEN [acc EXCEPT !.tickerStats =
                        [stats EXCEPT !.of[ticker] = ApplySell(@, transaction)],
                                !.totalSold = Add(@, transaction.totalAmount)]
               ELSE [acc EXCEPT !.tickerStats = stats]

\* One iteration of the loop over the transactions, on the accumulators
\* acc = [tickerStats, totalInjected, totalSold, totalDividends, totalFees].
Accumulate(acc, transaction) ==
    LET ticker == TickerOf(transaction)
        type == transaction.type
    IN IF ticker = "EUR" /\ type = "BUY"
       THEN [acc EXCEPT !.totalInjected = Add(@, transaction.totalAmount)]
       ELSE IF type = "DIVIDEND"
       THEN [acc EXCEPT !.totalDividends = Add(@, transaction.totalAmount)]
       ELSE IF type = "FEE"
       THEN [acc EXCEPT !.totalFees = ApplyFee(@, transaction)]
       ELSE LET stats == WithStats(acc.tickerStats, ticker)
            IN IF type = "BUY"
               THEN [acc EXCEPT !.tickerStats =
                        [stats EXCEPT !.of[ticker] = ApplyBuy(@, transaction)]]
               ELSE IF type = "SELL"
               THEN [acc EXCEPT !.tickerStats =
                        [stats EXCEPT !.of[ticker] = ApplySell(@, transaction)],
                                !.totalSold = Add(@, transaction.totalAmount)]
               ELSE [acc EXCEPT !.tickerStats = stats]

\* currentQuantity >= 0
IsOpen_nonNegative(entry) ==
    LET currentQuantity == Sub(entry.boughtQuantity, entry.soldQuantity)
    IN ~currentQuantity.nan /\ currentQuantity.v >= 0

\* currentQuantity > 0
IsOpen(entry) == GtZero(Sub(entry.boughtQuantity, entry.soldQuantity))

\* stats.totalBoughtAmount / stats.boughtQuantity
AveragePrice(entry) == Div(entry.totalBoughtAmount, entry.boughtQuantity)

RECURSIVE SelectKeys(_, _)
SelectKeys(keys, stats) ==
    IF keys = <<>> THEN <<>>
    ELSE (IF IsOpen(stats.of[Head(keys)]) THEN <<Head(keys)>> ELSE <<>>)
         \o SelectKeys(Tail(keys), stats)

\* The second loop: the positions with a remaining quantity, in key order.
Finalize(stats) ==
    LET keys == SelectKeys(stats.keys, stats)
    IN [keys |-> keys,
        of |-> [t \in {keys[i] : i \in 1..Len(keys)} |->
                   [averagePrice |-> AveragePrice(stats.of[t]),
                    totalQuantity |-> Sub(stats.of[t].boughtQuantity,
                                          stats.of[t].soldQuantity)]]]

EmptyAcc ==
    [tickerStats |-> EmptyStats, totalInjected |-> Zero, totalSold |-> Zero,
     totalDividends |-> Zero, totalFees |-> Zero]

RECURSIVE Fold(_, _)
Fold(acc, txs) ==
    IF txs = <<>> THEN acc ELSE Fold(Accumulate(acc, Head(txs)), Tail(txs))

\* The whole function on a list of transactions.
calculateAveragePrices(txs) ==
    LET acc == Fold(EmptyAcc, txs)
    IN [positions |-> Finalize(acc.tickerStats),
        totalInjected |-> acc.totalInjected, totalSold |-> acc.totalSold,
        totalDividends |-> acc.totalDividends, totalFees |-> acc.totalFees]

(* ------------------------------------------------------------------ main *)

NoPositions == [keys |-> <<>>, of |-> << >>]

Line(text, args) == [text |-> text, args |-> args]

\* A check that stops at the first key without an ISIN.
RECURSIVE MissingTickers_first(_, _)
MissingTickers_first(keys, map) ==
    IF keys = <<>> THEN <<>>
    ELSE IF HasIsin(map, Head(keys)) THEN MissingTickers_first(Tail(keys), map)
    ELSE <<Head(keys)>>

\* positions' keys without an ISIN, in key order (Object.keys(...).filter).
RECURSIVE MissingTickers(_, _)
MissingTickers(keys, map) ==
    IF keys = <<>> THEN <<>>
    ELSE (IF HasIsin(map, Head(keys)) THEN <<>> ELSE <<Head(keys)>>)
         \o MissingTickers(Tail(keys), map)

\* files.find(file => file.endsWith('.csv'))
RECURSIVE FindCsv(_)
FindCsv(files) ==
    IF files = <<>> THEN <<>>
    ELSE IF Head(files)[2] = ".csv" THEN <<Head(files)>> ELSE FindCsv(Tail(files))

\* The report lines of the positions, in key order.
RECURSIVE PositionLines(_, _, _)
PositionLines(keys, pos, map) ==
    IF keys = <<>> THEN <<>>
    ELSE << Line("position",
                 << map[Head(keys)],
                    toFixed(Quot(pos.of[Head(keys)].totalQuantity), 8),
                    toFixed(pos.of[Head(keys)].averagePrice, 2) >>) >>
         \o PositionLines(Tail(keys), pos, map)

SummaryLines(injected, sold, dividends, fees) ==
    << Line("", <<>>),
       Line("Summary:", <<>>),
       Line("========", <<>>),
       Line("Total invested:", <<toFixed(Quot(injected), 2)>>),
       Line("Total sold:", <<toFixed(Quot(sold), 2)>>),
       Line("Net contributions:", <<toFixed(Quot(Sub(injected, sold)), 2)>>),
       Line("Total dividends:", <<toFixed(Quot(dividends), 2)>>),
       Line("Total fees:", <<toFixed(Quot(fees), 2)>>) >>

RECURSIVE MissingLines(_)
MissingLines(missing) ==
    IF missing = <<>> THEN <<>>
    ELSE <<Line("  - TICKER_", <<Head(missing)>>)>> \o MissingLines(Tail(missing))

Init ==
    /\ \E env \in Environments : tickerToIsin = loadTickerToIsin(env)
    /\ pc = "start"
    /\ lines = <<>>
    /\ lineIndex = 0
    /\ transactions = <<>>
    /\ txIndex = 0
    /\ tickerStats = EmptyStats
    /\ totalInjected = Zero
    /\ totalSold = Zero
    /\ totalDividends = Zero
    /\ totalFees = Zero
    /\ positions = NoPositions
    /\ stdout = <<>>
    /\ stderr = <<>>
    /\ exitCode = 0

\* process.exit(1) after the given lines on stderr.
Exit1(errors) ==
    /\ stderr' = stderr \o errors
    /\ exitCode' = 1
    /\ pc' = "exited"

\* if (Object.keys(tickerToIsin).length === 0) ...
CheckTickerMap ==
    /\ pc = "start"
    /\ IF NoTickerMapping(tickerToIsin)
       THEN Exit1(<< Line("No ticker mapping found.", <<>>),
                     Line("See .env.example for reference.", <<>>) >>)
       ELSE /\ pc' = "checkDir"
            /\ UNCHANGED <<stderr, exitCode>>
    /\ UNCHANGED <<tickerToIsin, lines, lineIndex, transactions, txIndex,
                   tickerStats, totalInjected, totalSold, totalDividends,
                   totalFees, positions, stdout>>

\* if (!existsSync(DOCUMENTS_DIR)) ...
CheckDocumentsDir ==
    /\ pc = "checkDir"
    /\ \E exists \in BOOLEAN :
          IF ~exists
          THEN Exit1(<<Line("Documents folder not found:", <<>>)>>)
          ELSE /\ pc' = "listDir"
               /\ UNCHANGED <<stderr, exitCode>>
    /\ UNCHANGED <<tickerToIsin, lines, lineIndex, transactions, txIndex,
                   tickerStats, totalInjected, totalSold, totalDividends,
                   totalFees, positions, stdout>>

\* readdirSync, files.find, if (!csvFile) ...
FindCsvFile ==
    /\ pc = "listDir"
    /\ \E files \in Listings :
          IF FindCsv(files) = <<>>
          THEN Exit1(<<Line("No .csv file found in:", <<>>)>>)
          ELSE /\ pc' = "read"
               /\ UNCHANGED <<stderr, exitCode>>
    /\ UNCHANGED <<tickerToIsin, lines, lineIndex, transactions, txIndex,
                   tickerStats, totalInjected, totalSold, totalDividends,
                   totalFees, positions, stdout>>

\* parseCSV up to the loop: the file is read and split into lines.
ReadFile ==
    /\ pc = "read"
    /\ \E content \in Contents :
          /\ lines' = content
          /\ lineIndex' = 2
          /\ transactions' = <<>>
          /\ pc' = "parse"
    /\ UNCHANGED <<tickerToIsin, txIndex, tickerStats, totalInjected, totalSold,
                   totalDividends, totalFees, positions, stdout, stderr, exitCode>>

\* One iteration of the loop over the lines; a TypeError ends in the catch
\* block of main.
ParseLine ==
    /\ pc = "parse"
    /\ lineIndex <= Len(lines)
    /\ LET row == RowOf(lines[1], lines[lineIndex])
       IN IF Throws(row)
          THEN /\ Exit1(<<Line("Error during processing:", <<"TypeError">>)>>)
               /\ transactions' = <<>>
               /\ UNCHANGED lineIndex
          ELSE /\ transactions' = transactions \o Pushed(row)
               /\ lineIndex' = lineIndex + 1
               /\ UNCHANGED <<pc, stderr, exitCode>>
    /\ UNCHANGED <<tickerToIsin, lines, txIndex, tickerStats, totalInjected,
                   totalSold, totalDividends, totalFees, positions, stdout>>

\* parseCSV returns; calculateAveragePrices starts with zeroed accumulators.
ParseDone ==
    /\ pc = "parse"
    /\ lineIndex > Len(lines)
    /\ pc' = "aggregate"
    /\ txIndex' = 1
    /\ tickerStats' = EmptyAcc.tickerStats
    /\ totalInjected' = EmptyAcc.totalInjected
    /\ totalSold' = EmptyAcc.totalSold
    /\ totalDividends' = EmptyAcc.totalDividends
    /\ totalFees' = EmptyAcc.totalFees
    /\ UNCHANGED <<tickerToIsin, lines, lineIndex, transactions, positions,
                   stdout, stderr, exitCode>>

\* The accumulators as one record.
Acc ==
    [tickerStats |-> tickerStats, totalInjected |-> totalInjected,
     totalSold |-> totalSold, totalDividends |-> totalDividends,
     totalFees |-> totalFees]

\* One iteration of the loop over the transactions.
AggregateStep ==
    /\ pc = "aggregate"
    /\ txIndex <= Len(transactions)
    /\ LET acc == Accumulate(Acc, transactions[txIndex])
       IN /\ tickerStats' = acc.tickerStats
          /\ totalInjected' = acc.totalInjected
          /\ totalSold' = acc.totalSold
          /\ totalDividends' = acc.totalDividends
          /\ totalFees' = acc.totalFees
    /\ txIndex' = txIndex + 1
    /\ UNCHANGED <<tickerToIsin, pc, lines, lineIndex, transactions, positions,
                   stdout, stderr, exitCode>>

\* The loop over tickerStats and the return of calculateAveragePrices.
FinalizeStep ==
    /\ pc = "aggregate"
    /\ txIndex > Len(transactions)
    /\ positions' = Finalize(tickerStats)
    /\ pc' = "checkIsin"
    /\ UNCHANGED <<tickerToIsin, lines, lineIndex, transactions, txIndex,
                   tickerStats, totalInjected, totalSold, totalDividends,
                   totalFees, stdout, stderr, exitCode>>

\* The check that every position has an ISIN.
CheckIsin ==
    /\ pc = "checkIsin"
    /\ LET missingTickers == MissingTickers(positions.keys, tickerToIsin)
       IN IF Len(missingTickers) > 0
          THEN Exit1(<<Line("Missing ISIN mappings in .env file:", <<>>)>>
                     \o MissingLines(missingTickers))
          ELSE /\ pc' = "print"
               /\ UNCHANGED <<stderr, exitCode>>
    /\ UNCHANGED <<tickerToIsin, lines, lineIndex, transactions, txIndex,
                   tickerStats, totalInjected, totalSold, totalDividends,
                   totalFees, positions, stdout>>

\* The report: the positions, then the summary; main returns.
PrintReport ==
    /\ pc = "print"
    /\ stdout' = stdout
                 \o << Line("Average purchase prices:", <<>>),
                       Line("========================", <<>>) >>
                 \o PositionLines(positions.keys, positions, tickerToIsin)
                 \o SummaryLines(totalInjected, totalSold, totalDividends, totalFees)
    /\ pc' = "exited"
    /\ UNCHANGED <<tickerToIsin, lines, lineIndex, transactions, txIndex,
                   tickerStats, totalInjected, totalSold, totalDividends,
                   totalFees, positions, stderr, exitCode>>

Next ==
    \/ CheckTickerMap
    \/ CheckDocumentsDir
    \/ FindCsvFile
    \/ ReadFile
    \/ ParseLine
    \/ ParseDone
    \/ AggregateStep
    \/ FinalizeStep
    \/ CheckIsin
    \/ PrintReport

Spec == Init /\ [][Next]_vars

(* ------------------------------------------------- the claims' vocabulary *)

\* calculateAveragePrices has returned: positions holds its result.
Aggregated == pc \in {"checkIsin", "print"}

\* The row of data line i of the file read.
RowAt(i) == RowOf(lines[1], lines[i])

\* A record that is a purchase or a sale of a ticker; a BUY of "EUR" is the
\* cash top-up record, not a purchase.
IsTradeOf(tx, t, type) ==
    /\ tx.type = type
    /\ TickerOf(tx) = t
    /\ ~(type = "BUY" /\ t = "EUR")

\* The sum of a field over the records of one ticker and one type.
RECURSIVE SumField(_, _, _, _)
SumField(txs, t, type, field) ==
    IF txs = <<>> THEN Zero
    ELSE Add(IF IsTradeOf(Head(txs), t, type) THEN Head(txs)[field] ELSE Zero,
             SumField(Tail(txs), t, type, field))

HasRecord(txs, t, type) == \E i \in 1..Len(txs) : IsTradeOf(txs[i], t, type)

Tickers == EnvTickers \cup {TickerOf(transactions[i]) : i \in 1..Len(transactions)}

\* Sum of bought quantities minus sum of sold quantities, from the records.
RemainingOf(txs, t) ==
    Sub(SumField(txs, t, "BUY", "quantity"), SumField(txs, t, "SELL", "quantity"))

\* The transactions the loop has already folded.
Folded == SubSeq(transactions, 1, txIndex - 1)

\* The data line that pushed transaction k, counting from data line i.
RECURSIVE SourceLine(_, _)
SourceLine(i, k) ==
    IF k <= Len(Pushed(RowAt(i))) THEN i
    ELSE SourceLine(i + 1, k - Len(Pushed(RowAt(i))))

FromTopUpRow(k) == TypeOf(RowAt(SourceLine(2, k))) = CASH_TOP_UP

\* The rows of the file that are purchases: Type contains BUY, ticker present.
IsBuyRow(row) == HasTicker(row) /\ Includes(TypeOf(row), BUY)

\* Sums over the data lines i.. of the file.
RECURSIVE SumTopUpRows(_)
SumTopUpRows(i) ==
    IF i > Len(lines) THEN Zero
    ELSE Add(IF TypeOf(RowAt(i)) = CASH_TOP_UP THEN TotalAmountOf(RowAt(i)) ELSE Zero,
             SumTopUpRows(i + 1))

RECURSIVE SumBuyRowQuantity(_, _)
SumBuyRowQuantity(i, t) ==
    IF i > Len(lines) THEN Zero
    ELSE Add(IF IsBuyRow(RowAt(i)) /\ RowAt(i)["Ticker"] = t
             THEN QuantityOf(RowAt(i)) ELSE Zero,
             SumBuyRowQuantity(i + 1, t))

RECURSIVE SumBuyRowAmount(_, _)
SumBuyRowAmount(i, t) ==
    IF i > Len(lines) THEN Zero
    ELSE Add(IF IsBuyRow(RowAt(i)) /\ RowAt(i)["Ticker"] = t
             THEN TotalAmountOf(RowAt(i)) ELSE Zero,
             SumBuyRowAmount(i + 1, t))

\* A monetary or quantity field that does not parse to a number.
Unparsable(row, column) ==
    column \notin DOMAIN row \/ parseFloat(StripCurrency(row[column])).nan

\* A row of a recognised type with a required numeric field that does not parse.
MalformedRow(row) ==
    \/ /\ IsTrade(row)
       /\ \/ Unparsable(row, "Quantity")
          \/ TotalAmountOf(row).nan
          \/ Includes(TypeOf(row), BUY) /\ Unparsable(row, "Price per share")
    \/ /\ TypeOf(row) \in {DIVIDEND, ROBO_MANAGEMENT_FEE, CASH_TOP_UP}
       /\ TotalAmountOf(row).nan

HasNaN(tx) ==
    \/ tx.totalAmount.nan
    \/ "quantity" \in DOMAIN tx /\ tx.quantity.nan
    \/ "pricePerShare" \in DOMAIN tx /\ tx.pricePerShare.nan

Negative(a) == ~a.nan /\ a.v < 0

\* The tickers of positions that the map gives no ISIN, and those reported.
Unmapped == {t \in DOMAIN positions.of : t \notin DOMAIN tickerToIsin}

Reported == {stderr[i].args[1] : i \in {j \in 1..Len(stderr) : stderr[j].text = "  - TICKER_"}}

(* ---------------------------------------------------------------- claims *)

\* C1: whenever some ticker has a Sell record and no Buy record, the run ends
\* in an error outcome: non-zero exit status and no report.
C1_SellOnlyIsAnError ==
    (/\ pc = "exited"
     /\ \E t \in Tickers : /\ HasRecord(transactions, t, "SELL")
                           /\ ~HasRecord(transactions, t, "BUY"))
    => (exitCode # 0 /\ stdout = <<>>)

\* C2: a row of a recognised type whose required numeric field does not parse
\* aborts the run: the loop never gets past it, no record with a non-numeric
\* value is kept, and nothing is printed.
C2_UnparsableFieldAborts ==
    \A i \in 2..Len(lines) :
        (i < lineIndex /\ MalformedRow(RowAt(i)))
        => /\ pc = "exited" /\ exitCode # 0
           /\ stdout = <<>>
           /\ \A k \in 1..Len(transactions) : ~HasNaN(transactions[k])

\* C3: positions holds a ticker exactly when the ticker has stats with
\* boughtQuantity - soldQuantity > 0, which is exactly when it has Buy or Sell
\* records whose bought quantities exceed the sold ones; the quantity emitted is
\* the sum of the Buy quantities minus the sum of the Sell quantities.
C3_PositionsAreTheOpenTickers ==
    Aggregated =>
        \A t \in Tickers \cup DOMAIN positions.of :
            LET remaining == RemainingOf(transactions, t)
                traded == HasRecord(transactions, t, "BUY")
                          \/ HasRecord(transactions, t, "SELL")
            IN /\ (t \in DOMAIN positions.of) <=>
                      (/\ HasStats(tickerStats, t)
                       /\ GtZero(Sub(tickerStats.of[t].boughtQuantity,
                                     tickerStats.of[t].soldQuantity)))
               /\ (t \in DOMAIN positions.of) <=> (traded /\ GtZero(remaining))
               /\ t \in DOMAIN positions.of =>
                      positions.of[t].totalQuantity = remaining

C3_Witness ==
    /\ Aggregated
    /\ \E t \in DOMAIN positions.of :
          /\ HasRecord(transactions, t, "BUY")
          /\ HasRecord(transactions, t, "SELL")
          /\ positions.of[t].totalQuantity = Num(1)

\* C4: folding the record of a CASH TOP-UP row adds the row's total amount to
\* totalInjected and changes nothing else: no ticker's stats, no position, no
\* other total; and a file without an EUR-ticker row never has an EUR position.
C4_TopUpOnlyInjects ==
    /\ [](Aggregated =>
            (("EUR" \in DOMAIN positions.of) =>
                \E i \in 2..Len(lines) :
                    "Ticker" \in DOMAIN RowAt(i) /\ RowAt(i)["Ticker"] = "EUR"))
    /\ [][(/\ pc = "aggregate"
           /\ txIndex <= Len(transactions)
           /\ FromTopUpRow(txIndex))
          => /\ totalInjected' =
                    Add(totalInjected, TotalAmountOf(RowAt(SourceLine(2, txIndex))))
             /\ tickerStats' = tickerStats
             /\ Finalize(tickerStats') = Finalize(tickerStats)
             /\ positions' = positions
             /\ totalSold' = totalSold
             /\ totalDividends' = totalDividends
             /\ totalFees' = totalFees]_vars

C4_Witness ==
    /\ pc = "aggregate"
    /\ txIndex > 1
    /\ FromTopUpRow(txIndex - 1)
    /\ totalInjected = Num(7)

C6_AverageIsOverBuysOnly ==
    /\ pc = "aggregate" =>
          \A t \in DOMAIN tickerStats.of :
              /\ tickerStats.of[t].boughtQuantity = SumField(Folded, t, "BUY", "quantity")
              /\ tickerStats.of[t].totalBoughtAmount =
                     SumField(Folded, t, "BUY", "totalAmount")
    /\ Aggregated =>
          \A t \in DOMAIN positions.of :
              positions.of[t].averagePrice =
                  Div(SumField(transactions, t, "BUY", "totalAmount"),
                      SumField(transactions, t, "BUY", "quantity"))

C6_Witness ==
    /\ Aggregated
    /\ \E t \in DOMAIN positions.of :
          /\ HasRecord(transactions, t, "SELL")
          /\ SumField(transactions, t, "SELL", "totalAmount") = Num(6)
          /\ positions.of[t].averagePrice = [k |-> "fin", n |-> 5, d |-> 1]

\* C7: when positions hold tickers without an ISIN, the run reports exactly
\* those tickers, prints no report line and ends with a non-zero status.
C7_AllMappingGapsReported ==
    (pc \in {"print", "exited"} /\ Unmapped # {})
    => /\ pc = "exited"
       /\ exitCode # 0
       /\ stdout = <<>>
       /\ Reported = Unmapped

C7_Witness ==
    /\ pc = "exited"
    /\ Cardinality(Unmapped) = 2
    /\ Cardinality(Reported) = 2

\* C8: with an empty ticker map the run ends with the configuration error and
\* a non-zero status at the first check: the directory is never checked or
\* listed, no file is read, no line parsed, no record folded.
C8_EmptyMapStopsFirst ==
    DOMAIN tickerToIsin = {}
    => /\ pc \in {"start", "exited"}
       /\ lines = <<>> /\ lineIndex = 0
       /\ transactions = <<>> /\ txIndex = 0
       /\ stdout = <<>>
       /\ pc = "exited" =>
             /\ exitCode # 0
             /\ Len(stderr) = 2
             /\ stderr[1].text = "No ticker mapping found."

C8_Witness ==
    /\ DOMAIN tickerToIsin = {}
    /\ pc = "exited"
    /\ exitCode = 1

\* C9: after every step of the fold and in the result, totalInjected,
\* totalSold, totalDividends and totalFees are not negative.
C9_TotalsNeverNegative ==
    /\ ~Negative(totalInjected)
    /\ ~Negative(totalSold)
    /\ ~Negative(totalDividends)
    /\ ~Negative(totalFees)

\* C10: totalInjected is the sum of the total amounts of the CASH TOP-UP
\* rows only, and every Buy row (Type contains BUY, ticker present) counts in
\* the boughtQuantity and totalBoughtAmount of its own ticker, the ticker EUR
\* included.
C10_OnlyTopUpsAreInjected ==
    Aggregated =>
        /\ totalInjected = SumTopUpRows(2)
        /\ \A i \in 2..Len(lines) :
              IsBuyRow(RowAt(i)) =>
                  LET t == RowAt(i)["Ticker"]
                  IN /\ HasStats(tickerStats, t)
                     /\ tickerStats.of[t].boughtQuantity = SumBuyRowQuantity(2, t)
                     /\ tickerStats.of[t].totalBoughtAmount = SumBuyRowAmount(2, t)

====
